---- MODULE Spec2Model ----
(***************************************************************************)
(* Model of src/maze.py: class Maze (__init__, generate, display).         *)
(* generate() is modelled statement by statement; pc names the source line *)
(* about to execute.  Grid positions are <<x, y>>; the source indexes      *)
(* self.grid[y][x].                                                        *)
(***************************************************************************)
EXTENDS Integers, Sequences, FiniteSets, TLC

\* Largest width and height (in cells) passed to Maze(width, height), and
\* the largest number of cells width * height of a maze that is explored.
MaxW == 4
MaxH == 3
MaxCells == 12

\* The observation counters stop counting here, so that a run that never
\* ends still has finitely many states.  No run of generate() on at most
\* MaxCells cells reaches either cap (CountersBelowCap).
IterCap == 2 * MaxCells + 1
CellCap == 3

\* Largest number of draws another Maze instance makes from the shared
\* generator while this run is in progress.
MaxOtherDraws == 1

\* Largest maze (in cells) on which generate() is called a second time.
MaxRegenCells == 6

\* Fault variant of START: the start character is the end character.
START_AsEnd == "END"

\* Cell characters (maze.py lines 27-30).
WALL == "WALL"
PATH == "PATH"
START == "START"
END == "END"

VARIABLES
    width, height,      \* constructor arguments / self.width, self.height
    grid_w, grid_h,     \* self.grid_w, self.grid_h
    grid,               \* self.grid, a function <<x, y>> -> cell character
    start, end,         \* self.start, self.end
    animate,            \* argument of generate()
    stack, visited,     \* locals of generate()
    cur,                \* locals x, y of generate() as <<x, y>>
    neighbors,          \* local neighbors: sequence of <<nx, ny, wx, wy>>
    choice,             \* locals nx, ny, wx, wy after random.choice
    pc,                 \* source line about to execute / "new" / "done" / "raised"
    err,                \* exception that ended the run, or "none"
    \* ---- observation (history) variables, never read by the program ----
    pushes, pops,       \* per cell: times appended to / popped from stack
    iters, visits,      \* completed loop iterations / visit steps
    displays,           \* number of display() calls made by generate()
    snap,               \* grid as last written out by display()
    snapWrites,         \* grid writes made by the step that produced snap
    stepWrites,         \* grid writes made so far by the current step
    written,            \* every grid position ever assigned
    \* ---- the process around one run of generate() ----
    rng,                \* draws made so far from the module-level generator
                        \* of random, which every Maze in the process shares
    drawn,              \* random.choice calls made by the current run
    run,                \* 1: first run; 2: a second, separate run; 3: a
                        \* second call of generate() on the same Maze
    script,             \* the choices of the first run, as indices into
                        \* the candidate lists
    firstGrid,          \* the grid the first run ended with
    firstAnimate,       \* the animate argument of the first run
    trace               \* first run: <<stack, visited, grid>> at each
                        \* evaluation of the loop test of line 64

vars == <<width, height, grid_w, grid_h, grid, start, end, animate, stack,
          visited, cur, neighbors, choice, pc, err, pushes, pops, iters,
          visits, displays, snap, snapWrites, stepWrites, written, rng,
          drawn, run, script, firstGrid, firstAnimate, trace>>

hist == <<pushes, pops, iters, visits, displays, snap, snapWrites,
          stepWrites, written>>

proc == <<rng, drawn, run, script, firstGrid, firstAnimate>>

\* Observation counters: a function from the cells counted so far.
NoCount == [c \in {} |-> 0]
Count(f, c) == IF c \in DOMAIN f THEN f[c] ELSE 0
Inc(f, c) ==
    [d \in DOMAIN f \cup {c} |->
        IF d = c /\ Count(f, d) < CellCap THEN Count(f, d) + 1 ELSE Count(f, d)]
Tick(n) == IF n < IterCap THEN n + 1 ELSE n

NoCell == <<0, 0>>
NoChoice == <<0, 0, 0, 0>>

\* Python list length of a list built by [v] * n or by range(n).
ListLen(n) == IF n < 0 THEN 0 ELSE n

\* Python list indexing: i is accepted iff -len <= i < len.
ValidIndex(i, n) == -ListLen(n) <= i /\ i < ListLen(n)
PyIndex(i, n) == IF i < 0 THEN i + ListLen(n) ELSE i

GridPositions(gw, gh) == (0 .. (ListLen(gw) - 1)) \X (0 .. (ListLen(gh) - 1))

\* Fault variants of directions: the move to the right is missing; the
\* last move is diagonal.
directions_NoRight == << <<0, -2>>, <<0, 2>>, <<-2, 0>>, <<-2, 0>> >>
directions_Diagonal == << <<0, -2>>, <<0, 2>>, <<-2, 0>>, <<2, 2>> >>

\* Fault variant of directions: left and right are tried before up and down.
directions_Reordered == << <<-2, 0>>, <<2, 0>>, <<0, -2>>, <<0, 2>> >>

\* directions = [(0, -2), (0, 2), (-2, 0), (2, 0)]
directions == << <<0, -2>>, <<0, 2>>, <<-2, 0>>, <<2, 0>> >>

\* Fault variant of InBounds: the upper limits are one too small.
InBounds_OffByOne(nx, ny) ==
    /\ 1 <= nx /\ nx < grid_w - 2
    /\ 1 <= ny /\ ny < grid_h - 2

\* Fault variant of InBounds: the upper limits are the grid sizes, included.
InBounds_UpperInclusive(nx, ny) ==
    /\ 1 <= nx /\ nx <= grid_w
    /\ 1 <= ny /\ ny <= grid_h

\* Fault variant of InBounds: the lower limits are not tested.
InBounds_NoLower(nx, ny) ==
    /\ nx < grid_w - 1
    /\ ny < grid_h - 1

\* The bounds test of lines 71-72.
InBounds(nx, ny) ==
    /\ 1 <= nx /\ nx < grid_w - 1
    /\ 1 <= ny /\ ny < grid_h - 1

\* Fault variant of FindNeighbors: the visited test of line 73 is missing.
FindNeighbors_NoVisitedTest(x, y) ==
    LET cand == [i \in 1 .. Len(directions) |->
                    <<x + directions[i][1], y + directions[i][2],
                      directions[i][1] \div 2, directions[i][2] \div 2>>]
    IN SelectSeq(cand, LAMBDA n : InBounds(n[1], n[2]))

\* Lines 68-74: the unvisited in-bounds neighbours of (x, y), in the order
\* of directions, each with the offset of the wall towards it.
FindNeighbors(x, y) ==
    LET cand == [i \in 1 .. Len(directions) |->
                    <<x + directions[i][1], y + directions[i][2],
                      directions[i][1] \div 2, directions[i][2] \div 2>>]
    IN SelectSeq(cand, LAMBDA n :
                    /\ InBounds(n[1], n[2])
                    /\ <<n[1], n[2]>> \notin visited)

\* Fault variant of WallPos: the offset is the whole move (dx, dy), not
\* its half (dx // 2, dy // 2).
WallPos_NotHalved(x, y, wx, wy) == <<x + 2 * wx, y + 2 * wy>>

\* Fault variant of WallPos: the two offsets are exchanged.
WallPos_Swapped(x, y, wx, wy) == <<x + wy, y + wx>>

\* The wall position written by line 80.
WallPos(x, y, wx, wy) == <<x + wx, y + wy>>

\* self.grid[py][px] = v, continuing at line next; IndexError when the
\* index is outside the list.
Store(px, py, v, next) ==
    IF ValidIndex(py, grid_h) /\ ValidIndex(px, grid_w)
    THEN LET p == <<PyIndex(px, grid_w), PyIndex(py, grid_h)>>
         IN /\ grid' = [grid EXCEPT ![p] = v]
            /\ written' = written \cup {p}
            /\ stepWrites' = Tick(stepWrites)
            /\ pc' = next
            /\ err' = err
    ELSE /\ pc' = "raised"
         /\ err' = "IndexError"
         /\ UNCHANGED <<grid, written, stepWrites>>

Init ==
    /\ width \in 0 .. MaxW
    /\ height \in 0 .. MaxH
    /\ width * height <= MaxCells
    /\ animate \in BOOLEAN
    /\ grid_w = 0 /\ grid_h = 0
    /\ grid = <<>>
    /\ start = NoCell /\ end = NoCell
    /\ stack = <<>> /\ visited = {}
    /\ cur = NoCell /\ neighbors = <<>> /\ choice = NoChoice
    /\ pc = "new" /\ err = "none"
    /\ pushes = NoCount /\ pops = NoCount
    /\ iters = 0 /\ visits = 0 /\ displays = 0
    /\ snap = <<>> /\ snapWrites = 0 /\ stepWrites = 0
    /\ written = {}
    /\ rng = 0 /\ drawn = 0
    /\ run = 1 /\ script = <<>> /\ firstGrid = <<>>
    /\ firstAnimate = FALSE /\ trace = <<>>

\* Fault variant of MazeInit: self.end is one position too far.
MazeInit_EndOffByOne ==
    /\ pc = "new"
    /\ grid_w' = width * 2 + 1
    /\ grid_h' = height * 2 + 1
    /\ grid' = [p \in GridPositions(grid_w', grid_h') |-> WALL]
    /\ start' = <<1, 1>>
    /\ end' = <<grid_w' - 1, grid_h' - 1>>
    /\ pc' = "L58"
    /\ UNCHANGED <<width, height, animate, stack, visited, cur, neighbors,
                   choice, err>>
    /\ UNCHANGED hist
    /\ UNCHANGED proc
    /\ UNCHANGED trace

\* Maze.__init__ (lines 44-53).
MazeInit ==
    /\ pc = "new"
    /\ grid_w' = width * 2 + 1
    /\ grid_h' = height * 2 + 1
    /\ grid' = [p \in GridPositions(grid_w', grid_h') |-> WALL]
    /\ start' = <<1, 1>>
    /\ end' = <<grid_w' - 2, grid_h' - 2>>
    /\ pc' = "L58"
    /\ UNCHANGED <<width, height, animate, stack, visited, cur, neighbors,
                   choice, err>>
    /\ UNCHANGED hist
    /\ UNCHANGED proc
    /\ UNCHANGED trace

\* Fault variant of GenerateBegin: the visited set is shared by all calls
\* (a class attribute or default argument) and is never emptied.
GenerateBegin_SharedVisited ==
    /\ pc = "L58"
    /\ stack' = << <<1, 1>> >>
    /\ visited' = visited \cup { <<1, 1>> }
    /\ pushes' = Inc(pushes, <<1, 1>>)
    /\ pc' = "L60"
    /\ UNCHANGED <<width, height, grid_w, grid_h, grid, start, end, animate,
                   cur, neighbors, choice, err>>
    /\ UNCHANGED <<pops, iters, visits, displays, snap, snapWrites,
                   stepWrites, written>>
    /\ UNCHANGED proc
    /\ UNCHANGED trace

\* generate(), lines 58-59: the stack and the visited set start at (1, 1).
GenerateBegin ==
    /\ pc = "L58"
    /\ stack' = << <<1, 1>> >>
    /\ visited' = { <<1, 1>> }
    /\ pushes' = Inc(pushes, <<1, 1>>)
    /\ pc' = "L60"
    /\ UNCHANGED <<width, height, grid_w, grid_h, grid, start, end, animate,
                   cur, neighbors, choice, err>>
    /\ UNCHANGED <<pops, iters, visits, displays, snap, snapWrites,
                   stepWrites, written>>
    /\ UNCHANGED proc
    /\ UNCHANGED trace

\* Fault variant of OpenOrigin: the origin is marked START straight away.
OpenOrigin_MarksStart ==
    /\ pc = "L60"
    /\ Store(1, 1, START, "L64")
    /\ UNCHANGED <<width, height, grid_w, grid_h, start, end, animate, stack,
                   visited, cur, neighbors, choice>>
    /\ UNCHANGED <<pushes, pops, iters, visits, displays, snap, snapWrites>>
    /\ UNCHANGED proc
    /\ UNCHANGED trace

\* Line 60: self.grid[1][1] = PATH.
OpenOrigin ==
    /\ pc = "L60"
    /\ Store(1, 1, PATH, "L64")
    /\ UNCHANGED <<width, height, grid_w, grid_h, start, end, animate, stack,
                   visited, cur, neighbors, choice>>
    /\ UNCHANGED <<pushes, pops, iters, visits, displays, snap, snapWrites>>
    /\ UNCHANGED proc
    /\ UNCHANGED trace

\* The first run's record of the states at the loop test (no longer than
\* IterCap, like the observation counters).
Logged ==
    IF run = 1 /\ Len(trace) < IterCap
    THEN Append(trace, <<stack, visited, grid>>)
    ELSE trace

\* Fault variant of LoopTest: the loop stops when one element is left
\* (while len(stack) > 1).
LoopTest_StopsAtOne ==
    /\ pc = "L64"
    /\ pc' = IF Len(stack) > 1 THEN "L65" ELSE "L92"
    /\ stepWrites' = 0
    /\ UNCHANGED <<width, height, grid_w, grid_h, grid, start, end, animate,
                   stack, visited, cur, neighbors, choice, err>>
    /\ UNCHANGED <<pushes, pops, iters, visits, displays, snap, snapWrites,
                   written>>
    /\ UNCHANGED proc
    /\ trace' = Logged

\* Line 64: while stack.
LoopTest ==
    /\ pc = "L64"
    /\ pc' = IF stack # <<>> THEN "L65" ELSE "L92"
    /\ stepWrites' = 0
    /\ UNCHANGED <<width, height, grid_w, grid_h, grid, start, end, animate,
                   stack, visited, cur, neighbors, choice, err>>
    /\ UNCHANGED <<pushes, pops, iters, visits, displays, snap, snapWrites,
                   written>>
    /\ UNCHANGED proc
    /\ trace' = Logged

\* Lines 65-74: x, y = stack[-1] and the scan for unvisited neighbours.
Scan ==
    /\ pc = "L65"
    /\ cur' = stack[Len(stack)]
    /\ neighbors' = FindNeighbors(cur'[1], cur'[2])
    /\ pc' = "L76"
    /\ UNCHANGED <<width, height, grid_w, grid_h, grid, start, end, animate,
                   stack, visited, choice, err>>
    /\ UNCHANGED hist
    /\ UNCHANGED proc
    /\ UNCHANGED trace

\* Line 78: nx, ny, wx, wy = random.choice(neighbors), taken when the test
\* of line 76 succeeds.
Choose ==
    /\ pc = "L76"
    /\ neighbors # <<>>
    /\ run # 2
    /\ \E i \in 1 .. Len(neighbors) :
          /\ choice' = neighbors[i]
          /\ script' = Append(script, i)
    /\ rng' = rng + 1
    /\ drawn' = Tick(drawn)
    /\ pc' = "L80"
    /\ UNCHANGED <<width, height, grid_w, grid_h, grid, start, end, animate,
                   stack, visited, cur, neighbors, err>>
    /\ UNCHANGED hist
    /\ UNCHANGED <<run, firstGrid, firstAnimate, trace>>

\* Line 80: self.grid[y + wy][x + wx] = PATH.
CarveWall ==
    /\ pc = "L80"
    /\ LET w == WallPos(cur[1], cur[2], choice[3], choice[4])
       IN Store(w[1], w[2], PATH, "L81")
    /\ UNCHANGED <<width, height, grid_w, grid_h, start, end, animate, stack,
                   visited, cur, neighbors, choice>>
    /\ UNCHANGED <<pushes, pops, iters, visits, displays, snap, snapWrites>>
    /\ UNCHANGED proc
    /\ UNCHANGED trace

\* Fault variant of CarveCell: display() is called before the cell is
\* opened instead of after the step.
CarveCell_DisplayFirst ==
    /\ pc = "L81"
    /\ Store(choice[1], choice[2], PATH, "L82")
    /\ snap' = IF animate THEN grid ELSE snap
    /\ snapWrites' = IF animate THEN stepWrites ELSE snapWrites
    /\ displays' = IF animate THEN Tick(displays) ELSE displays
    /\ UNCHANGED <<width, height, grid_w, grid_h, start, end, animate, stack,
                   visited, cur, neighbors, choice>>
    /\ UNCHANGED <<pushes, pops, iters, visits>>
    /\ UNCHANGED proc
    /\ UNCHANGED trace

\* Fault variant of CarveCell: the assignment of line 81 is missing.
CarveCell_Skipped ==
    /\ pc = "L81"
    /\ pc' = "L82"
    /\ UNCHANGED <<width, height, grid_w, grid_h, grid, start, end, animate,
                   stack, visited, cur, neighbors, choice, err>>
    /\ UNCHANGED hist
    /\ UNCHANGED proc
    /\ UNCHANGED trace

\* Line 81: self.grid[ny][nx] = PATH.
CarveCell ==
    /\ pc = "L81"
    /\ Store(choice[1], choice[2], PATH, "L82")
    /\ UNCHANGED <<width, height, grid_w, grid_h, start, end, animate, stack,
                   visited, cur, neighbors, choice>>
    /\ UNCHANGED <<pushes, pops, iters, visits, displays, snap, snapWrites>>
    /\ UNCHANGED proc
    /\ UNCHANGED trace

\* Fault variant of SetAdd: the element is not added.
SetAdd_Dropped(v, c) == v

\* set.add(c).
SetAdd(v, c) == v \cup {c}

\* Line 82: visited.add((nx, ny)).
AddVisited ==
    /\ pc = "L82"
    /\ visited' = SetAdd(visited, <<choice[1], choice[2]>>)
    /\ pc' = "L83"
    /\ UNCHANGED <<width, height, grid_w, grid_h, grid, start, end, animate,
                   stack, cur, neighbors, choice, err>>
    /\ UNCHANGED hist
    /\ UNCHANGED proc
    /\ UNCHANGED trace

\* Line 83: stack.append((nx, ny)).
Push ==
    /\ pc = "L83"
    /\ stack' = Append(stack, <<choice[1], choice[2]>>)
    /\ pushes' = Inc(pushes, <<choice[1], choice[2]>>)
    /\ pc' = "L85"
    /\ UNCHANGED <<width, height, grid_w, grid_h, grid, start, end, animate,
                   visited, cur, neighbors, choice, err>>
    /\ UNCHANGED <<pops, iters, visits, displays, snap, snapWrites,
                   stepWrites, written>>
    /\ UNCHANGED proc
    /\ UNCHANGED trace

\* Fault variant of ShouldDisplay: the test is inverted.
ShouldDisplay_Inverted == ~animate

\* Line 85: if animate.
ShouldDisplay == animate

\* Line 85 when animate is false: the visit step ends without a display.
EndVisit ==
    /\ pc = "L85"
    /\ ~ShouldDisplay
    /\ pc' = "L64"
    /\ iters' = Tick(iters)
    /\ visits' = Tick(visits)
    /\ UNCHANGED <<width, height, grid_w, grid_h, grid, start, end, animate,
                   stack, visited, cur, neighbors, choice, err>>
    /\ UNCHANGED <<pushes, pops, displays, snap, snapWrites, stepWrites,
                   written>>
    /\ UNCHANGED proc
    /\ UNCHANGED trace

\* Fault variant of Display: display() overlays the start marker on the
\* grid it prints.
Display_MarksStart ==
    /\ pc = "L85"
    /\ ShouldDisplay
    /\ grid' = [grid EXCEPT ![start] = START]
    /\ snap' = grid'
    /\ snapWrites' = stepWrites
    /\ displays' = Tick(displays)
    /\ pc' = "L64"
    /\ iters' = Tick(iters)
    /\ visits' = Tick(visits)
    /\ UNCHANGED <<width, height, grid_w, grid_h, start, end, animate,
                   stack, visited, cur, neighbors, choice, err>>
    /\ UNCHANGED <<pushes, pops, stepWrites, written>>
    /\ UNCHANGED proc
    /\ UNCHANGED trace

\* Lines 86-87: self.display(); time.sleep(0.02).  display() (lines 95-110)
\* writes every position of self.grid to stdout and assigns nothing.
Display ==
    /\ pc = "L85"
    /\ ShouldDisplay
    /\ snap' = grid
    /\ snapWrites' = stepWrites
    /\ displays' = Tick(displays)
    /\ pc' = "L64"
    /\ iters' = Tick(iters)
    /\ visits' = Tick(visits)
    /\ UNCHANGED <<width, height, grid_w, grid_h, grid, start, end, animate,
                   stack, visited, cur, neighbors, choice, err>>
    /\ UNCHANGED <<pushes, pops, stepWrites, written>>
    /\ UNCHANGED proc
    /\ UNCHANGED trace

\* Fault variant of PopStack: the top is read but not removed.
PopStack_Kept(s) == s

\* Fault variant of PopStack: the first element is removed (pop(0)).
PopStack_Bottom(s) == Tail(s)

\* list.pop(): the list without its last element.
PopStack(s) == SubSeq(s, 1, Len(s) - 1)

\* Fault variant of Pop: the cell popped is also removed from visited.
Pop_Unvisits ==
    /\ pc = "L76"
    /\ neighbors = <<>>
    /\ stack' = PopStack(stack)
    /\ visited' = visited \ {stack[Len(stack)]}
    /\ pops' = Inc(pops, stack[Len(stack)])
    /\ pc' = "L64"
    /\ iters' = Tick(iters)
    /\ UNCHANGED <<width, height, grid_w, grid_h, grid, start, end, animate,
                   cur, neighbors, choice, err>>
    /\ UNCHANGED <<pushes, visits, displays, snap, snapWrites, stepWrites,
                   written>>
    /\ UNCHANGED proc
    /\ UNCHANGED trace

\* Line 89: stack.pop(), taken when the test of line 76 fails.
Pop ==
    /\ pc = "L76"
    /\ neighbors = <<>>
    /\ stack' = PopStack(stack)
    /\ pops' = Inc(pops, stack[Len(stack)])
    /\ pc' = "L64"
    /\ iters' = Tick(iters)
    /\ UNCHANGED <<width, height, grid_w, grid_h, grid, start, end, animate,
                   visited, cur, neighbors, choice, err>>
    /\ UNCHANGED <<pushes, visits, displays, snap, snapWrites, stepWrites,
                   written>>
    /\ UNCHANGED proc
    /\ UNCHANGED trace

\* Line 92: self.grid[1][1] = START.
MarkStart ==
    /\ pc = "L92"
    /\ Store(1, 1, START, "L93")
    /\ UNCHANGED <<width, height, grid_w, grid_h, start, end, animate, stack,
                   visited, cur, neighbors, choice>>
    /\ UNCHANGED <<pushes, pops, iters, visits, displays, snap, snapWrites>>
    /\ UNCHANGED proc
    /\ UNCHANGED trace

\* Line 93: self.grid[self.grid_h - 2][self.grid_w - 2] = END.
MarkEnd ==
    /\ pc = "L93"
    /\ Store(grid_w - 2, grid_h - 2, END, "done")
    /\ UNCHANGED <<width, height, grid_w, grid_h, start, end, animate, stack,
                   visited, cur, neighbors, choice>>
    /\ UNCHANGED <<pushes, pops, iters, visits, displays, snap, snapWrites>>
    /\ UNCHANGED proc
    /\ UNCHANGED trace

Next ==
    \/ MazeInit
    \/ GenerateBegin
    \/ OpenOrigin
    \/ LoopTest
    \/ Scan
    \/ Choose
    \/ CarveWall
    \/ CarveCell
    \/ AddVisited
    \/ Push
    \/ EndVisit
    \/ Display
    \/ Pop
    \/ MarkStart
    \/ MarkEnd

Spec == Init /\ [][Next]_vars

\* generate() is straight-line sequential code: the interpreter always
\* executes the next statement.
FairSpec == Spec /\ WF_vars(Next)

(***************************************************************************)
(* The process around generate(): interrupts, a second separate run, and   *)
(* another Maze instance drawing from the same generator.                  *)
(***************************************************************************)

\* The lines of generate() an asynchronous exception can be raised at.
GenerateLines == {"L58", "L60", "L64", "L65", "L76", "L80", "L81", "L82",
                  "L83", "L85", "L92", "L93"}

\* Ctrl+C while generate() runs: Python raises KeyboardInterrupt before
\* the next statement, generate() is left by the exception, and main()
\* catches it (lines 129-130).  Nothing is assigned on the way out.
Interrupt ==
    /\ pc \in GenerateLines
    /\ pc' = "interrupted"
    /\ err' = "KeyboardInterrupt"
    /\ UNCHANGED <<width, height, grid_w, grid_h, grid, start, end, animate,
                   stack, visited, cur, neighbors, choice>>
    /\ UNCHANGED hist
    /\ UNCHANGED proc
    /\ UNCHANGED trace

SpecInterrupt == Init /\ [][Next \/ Interrupt]_vars

\* A second, separate run: after the first generate() has returned a new
\* Maze(width, height) is about to be constructed and generated (lines 117
\* and 120 again).  The locals of the finished call are dead; the
\* observation variables start over.
NewRun ==
    /\ pc = "done"
    /\ run = 1
    /\ run' = 2
    /\ firstGrid' = grid
    /\ firstAnimate' = animate
    /\ UNCHANGED trace
    /\ animate' \in BOOLEAN
    /\ drawn' = 0
    /\ pc' = "new"
    /\ pushes' = NoCount /\ pops' = NoCount
    /\ iters' = 0 /\ visits' = 0 /\ displays' = 0
    /\ snap' = <<>> /\ snapWrites' = 0 /\ stepWrites' = 0
    /\ written' = {}
    /\ UNCHANGED <<width, height, grid_w, grid_h, grid, start, end, stack,
                   visited, cur, neighbors, choice, err, rng, script>>

\* Line 78 in the second run, with random.choice replaced by a selection
\* function that returns the recorded choices of the first run in order.
ChooseScripted ==
    /\ pc = "L76"
    /\ neighbors # <<>>
    /\ run = 2
    /\ drawn < Len(script)
    /\ script[drawn + 1] <= Len(neighbors)
    /\ choice' = neighbors[script[drawn + 1]]
    /\ drawn' = Tick(drawn)
    /\ pc' = "L80"
    /\ UNCHANGED <<width, height, grid_w, grid_h, grid, start, end, animate,
                   stack, visited, cur, neighbors, err>>
    /\ UNCHANGED hist
    /\ UNCHANGED <<rng, run, script, firstGrid, firstAnimate, trace>>

SpecReplay == Init /\ [][Next \/ NewRun \/ ChooseScripted]_vars

\* maze.generate() called again on the Maze whose generation has returned:
\* the object keeps its fields, grid included; the call starts at line 58
\* with its own argument and fresh locals.  The observation variables
\* start over.
GenerateAgain ==
    /\ pc = "done"
    /\ run = 1
    /\ width * height <= MaxRegenCells
    /\ run' = 3
    /\ firstGrid' = grid
    /\ firstAnimate' = animate
    /\ UNCHANGED trace
    /\ animate' \in BOOLEAN
    /\ drawn' = 0
    /\ pc' = "L58"
    /\ pushes' = NoCount /\ pops' = NoCount
    /\ iters' = 0 /\ visits' = 0 /\ displays' = 0
    /\ snap' = <<>> /\ snapWrites' = 0 /\ stepWrites' = 0
    /\ written' = {}
    /\ UNCHANGED <<width, height, grid_w, grid_h, grid, start, end, stack,
                   visited, cur, neighbors, choice, err, rng, script>>

SpecRegen == Init /\ [][Next \/ GenerateAgain]_vars

\* random.choice(seq) is seq[i] for an index i computed from the state of
\* the module-level generator, which then advances.  The generator is
\* abstracted to a counter n whose output for k candidates is n mod k.
Stream(n, k) == (n % k) + 1

\* Line 78 with the generator made explicit.
ChooseFromRng ==
    /\ pc = "L76"
    /\ neighbors # <<>>
    /\ run = 1
    /\ choice' = neighbors[Stream(rng, Len(neighbors))]
    /\ script' = Append(script, Stream(rng, Len(neighbors)))
    /\ rng' = rng + 1
    /\ drawn' = Tick(drawn)
    /\ pc' = "L80"
    /\ UNCHANGED <<width, height, grid_w, grid_h, grid, start, end, animate,
                   stack, visited, cur, neighbors, err>>
    /\ UNCHANGED hist
    /\ UNCHANGED <<run, firstGrid, firstAnimate, trace>>

\* Line 78 executed by the generate() of another Maze instance of the same
\* process while this run is about to draw: the shared generator advances.
OtherDraw ==
    /\ pc = "L76"
    /\ neighbors # <<>>
    /\ rng - drawn < MaxOtherDraws
    /\ rng' = rng + 1
    /\ UNCHANGED <<width, height, grid_w, grid_h, grid, start, end, animate,
                   stack, visited, cur, neighbors, choice, pc, err>>
    /\ UNCHANGED hist
    /\ UNCHANGED <<drawn, run, script, firstGrid, firstAnimate, trace>>

NextShared ==
    \/ MazeInit
    \/ GenerateBegin
    \/ OpenOrigin
    \/ LoopTest
    \/ Scan
    \/ ChooseFromRng
    \/ OtherDraw
    \/ CarveWall
    \/ CarveCell
    \/ AddVisited
    \/ Push
    \/ EndVisit
    \/ Display
    \/ Pop
    \/ MarkStart
    \/ MarkEnd

SpecShared == Init /\ [][NextShared]_vars

(***************************************************************************)
(* Vocabulary of the properties: the cell graph read off a grid.           *)
(***************************************************************************)
Odd(n) == n % 2 = 1
Even(n) == n % 2 = 0

\* Logical cells of grid g (both coordinates odd), wall slots between two
\* cells (exactly one odd coordinate) and intersection posts (both even).
Cells(g) == {p \in DOMAIN g : Odd(p[1]) /\ Odd(p[2])}
WallSlots(g) == {p \in DOMAIN g : Odd(p[1]) # Odd(p[2])}
Posts(g) == {p \in DOMAIN g : Even(p[1]) /\ Even(p[2])}

\* Carved passages: the wall slots that no longer hold WALL.
Carved(g) == {p \in WallSlots(g) : g[p] # WALL}
NonWall(g) == {p \in DOMAIN g : g[p] # WALL}

\* The two positions a wall slot lies between.
Ends(p) == IF Odd(p[1]) THEN {<<p[1], p[2] - 1>>, <<p[1], p[2] + 1>>}
           ELSE {<<p[1] - 1, p[2]>>, <<p[1] + 1, p[2]>>}

Mid(a, b) == <<(a[1] + b[1]) \div 2, (a[2] + b[2]) \div 2>>
Abs(n) == IF n < 0 THEN -n ELSE n
GridAdjacent(a, b) ==
    \/ a[1] = b[1] /\ Abs(a[2] - b[2]) = 2
    \/ a[2] = b[2] /\ Abs(a[1] - b[1]) = 2

\* Cells joined to cell c by a carved passage of g.
Joined(g, c) == {d \in Cells(g) : GridAdjacent(c, d) /\ g[Mid(c, d)] # WALL}

\* Cells reachable from the cells of frontier along carved passages.
RECURSIVE Reach(_, _, _)
Reach(g, frontier, seen) ==
    IF frontier = {} THEN seen
    ELSE LET more == (UNION {Joined(g, c) : c \in frontier}) \ seen
         IN Reach(g, more, seen \cup more)

\* Number of simple paths from a to b through traversable (non-WALL) cells
\* along carved passages, never re-entering a cell of seen.
RECURSIVE NumPaths(_, _, _, _)
RECURSIVE SumPaths(_, _, _, _)
NumPaths(g, a, b, seen) ==
    IF a = b THEN 1
    ELSE SumPaths(g, {d \in Joined(g, a) \ seen : g[d] # WALL}, b, seen)
SumPaths(g, todo, b, seen) ==
    IF todo = {} THEN 0
    ELSE LET d == CHOOSE e \in todo : TRUE
         IN NumPaths(g, d, b, seen \cup {d}) + SumPaths(g, todo \ {d}, b, seen)

\* The carved passages of g form a tree whose vertex set is exactly vs:
\* every passage joins two cells of vs, there are |vs| - 1 of them, and
\* all of vs is reachable from the origin cell.
TreeOver(g, vs) ==
    /\ <<1, 1>> \in vs
    /\ vs \subseteq Cells(g)
    /\ \A p \in Carved(g) : Ends(p) \subseteq vs
    /\ Cardinality(Carved(g)) = Cardinality(vs) - 1
    /\ Reach(g, {<<1, 1>>}, {<<1, 1>>}) = vs

\* generate() is between two steps of its loop, or past the loop.
StepBoundary == pc \in {"L64", "L92", "L93", "done"}
LoopExited == pc \in {"L92", "L93", "done"}

\* C1: when generate() has returned, the number of carved wall positions
\* equals width * height - 1.
C1_SpanningTreeEdgeCount ==
    pc = "done" => Cardinality(Carved(grid)) = width * height - 1
C1_Witness ==
    /\ pc = "done" /\ width = 4 /\ height = 3
    /\ Cardinality(Carved(grid)) = 11

\* C2: in a completed maze every pair of logical cells is joined by exactly
\* one simple path of carved passages; in particular every cell is
\* reachable from the Start cell.
C2_UniquePath ==
    pc = "done" =>
        /\ \A a, b \in Cells(grid) : NumPaths(grid, a, b, {a}) = 1
        /\ Reach(grid, {start}, {start}) = Cells(grid)
C2_Witness ==
    /\ pc = "done" /\ width >= 3 /\ height >= 2
    /\ NumPaths(grid, start, end, {start}) = 1
    /\ \E c \in Cells(grid) : Cardinality(Joined(grid, c)) = 3

\* C3: after any number of completed visit/backtrack steps (none, some, or
\* all) the carved passages form a single tree that contains the origin,
\* has the visited set as its vertex set, and touches no unvisited cell.
C3_PartialTree ==
    StepBoundary /\ err = "none" => TreeOver(grid, visited)
C3_Witness ==
    /\ pc = "L64" /\ iters >= 3 /\ visits >= 2 /\ stack # <<>>
    /\ Cardinality(visited) < width * height
    /\ TreeOver(grid, visited)

\* C4: whenever the loop has ended (the stack was found empty) the visited
\* set holds all width * height logical cells.
C4_Coverage ==
    (LoopExited \/ (pc = "L64" /\ stack = <<>>)) =>
        /\ visited = Cells(grid)
        /\ Cardinality(visited) = width * height
C4_Witness ==
    /\ pc = "L92" /\ stack = <<>> /\ width = 3 /\ height = 2
    /\ Cardinality(visited) = 6

\* The observation counters never reach their caps.
CountersBelowCap ==
    /\ iters < IterCap /\ visits < IterCap /\ displays < IterCap
    /\ stepWrites < IterCap
    /\ \A c \in DOMAIN pushes : pushes[c] < CellCap
    /\ \A c \in DOMAIN pops : pops[c] < CellCap

ValidDims == width >= 1 /\ height >= 1

\* C5: for width >= 1 and height >= 1, whatever neighbours are chosen, an
\* uninterrupted generation reaches the empty frontier stack and generate()
\* returns.
C5_Terminates ==
    /\ (ValidDims /\ pc = "new") ~> (pc = "L92" /\ stack = <<>>)
    /\ (ValidDims /\ pc = "new") ~> (pc = "done")
C5_Witness ==
    /\ pc = "done" /\ stack = <<>> /\ width * height = MaxCells
    /\ iters = 2 * width * height - 1

\* C6: in one run of generate() no cell is pushed or popped more than once
\* (so none is pushed again after its pop), only pushed cells are popped,
\* and on return every logical cell has been pushed once and popped once.
C6_PushedOncePoppedOnce ==
    /\ \A c \in DOMAIN pushes : pushes[c] <= 1
    /\ \A c \in DOMAIN pops : pops[c] <= 1 /\ Count(pushes, c) = 1
    /\ pc = "done" =>
          \A c \in Cells(grid) : Count(pushes, c) = 1 /\ Count(pops, c) = 1
C6_Witness ==
    /\ pc = "done" /\ width >= 2 /\ height >= 2
    /\ \A c \in Cells(grid) : Count(pushes, c) = 1 /\ Count(pops, c) = 1

\* C7: every grid position with both coordinates even holds WALL in every
\* state, and no statement ever assigns such a position.
C7_PostsStayWalls ==
    /\ \A p \in Posts(grid) : grid[p] = WALL
    /\ written \cap Posts(grid) = {}
C7_Witness ==
    /\ pc = "done" /\ width >= 2 /\ height >= 2
    /\ grid[<<2, 2>>] = WALL
    /\ Cardinality(Carved(grid) \cap {<<2, 1>>, <<1, 2>>, <<3, 2>>, <<2, 3>>}) = 3

\* C8: constructing a maze with width < 1 or height < 1 fails in the
\* constructor with a ConfigurationError, before any generation step and
\* without producing a grid.
C8_ConfigurationError ==
    (~ValidDims /\ pc # "new") =>
        /\ err = "ConfigurationError"
        /\ pc = "raised"
        /\ grid = <<>>

OpenCells(g) == {c \in Cells(g) : g[c] # WALL}

\* C10: every snapshot is taken after the two grid writes of its step and
\* before any later write (the grid differs from the last snapshot only
\* inside a visit step or after endpoint marking), each snapshot is a tree
\* over the cells visited so far, and the non-wall positions of successive
\* snapshots only grow.
C10_SnapshotState ==
    displays > 0 =>
        /\ snapWrites = 2
        /\ grid # snap => pc \in {"L81", "L82", "L83", "L85", "L93", "done"}
        /\ TreeOver(snap, OpenCells(snap))
        /\ pc = "L64" => OpenCells(snap) = visited
C10_SnapshotOrder ==
    /\ []C10_SnapshotState
    /\ [][displays > 0 => NonWall(snap) \subseteq NonWall(snap')]_vars
C10_Witness ==
    /\ animate /\ pc = "L85" /\ displays >= 2 /\ stepWrites = 2
    /\ grid # snap /\ NonWall(snap) \subseteq NonWall(grid)
    /\ Len(stack) < Cardinality(visited)

Marked(m) == {p \in DOMAIN grid : grid[p] = m}
EndCell == <<2 * width - 1, 2 * height - 1>>

\* C11 as claimed: when generate() has returned, grid (1, 1) holds START,
\* grid (2*width-1, 2*height-1) holds END, and these are self.start and
\* self.end.
C11_EndpointsMarked ==
    pc = "done" =>
        /\ grid[<<1, 1>>] = START
        /\ grid[EndCell] = END
        /\ start = <<1, 1>> /\ end = EndCell

\* C11 as amended: when generate() has returned, self.start is (1, 1),
\* self.end is (2*width-1, 2*height-1) and holds END, and (1, 1) holds START
\* unless the maze is 1x1, where start and end are one position and it
\* holds END, written last.
C11_EndpointsMarkedUnlessSingle ==
    pc = "done" =>
        /\ start = <<1, 1>> /\ end = EndCell
        /\ grid[end] = END
        /\ width * height > 1 => grid[start] = START
        /\ width * height = 1 => start = end
C11_Witness ==
    /\ pc = "done" /\ width >= 2 /\ height >= 2
    /\ grid[<<1, 1>>] = START /\ grid[EndCell] = END /\ end = EndCell

\* C12: START and END are written only after carving: while the frontier
\* stack is non-empty, also in the grid an interrupted run leaves behind,
\* no grid position holds START or END.
C12_NoMarkersWhileCarving ==
    stack # <<>> => Marked(START) = {} /\ Marked(END) = {}
C12_Witness ==
    /\ pc = "interrupted" /\ stack # <<>> /\ visits >= 2
    /\ Marked(START) = {} /\ Marked(END) = {}

\* C13 as claimed: in every completed maze exactly one position holds START
\* and exactly one holds END, both of them visited logical cells.
C13_OneStartOneEnd ==
    pc = "done" =>
        /\ Cardinality(Marked(START)) = 1
        /\ Cardinality(Marked(END)) = 1
        /\ Marked(START) \cup Marked(END) \subseteq visited

\* C13 as amended: in every completed maze exactly one position holds END;
\* exactly one holds START when width * height > 1 and none does in the 1x1
\* maze, whose single cell holds END; every marked position is a visited
\* logical cell.
C13_OneEndOneStartUnlessSingle ==
    pc = "done" =>
        /\ Cardinality(Marked(END)) = 1
        /\ Cardinality(Marked(START)) = (IF width * height > 1 THEN 1 ELSE 0)
        /\ Marked(START) \cup Marked(END) \subseteq visited \cap Cells(grid)
C13_Witness ==
    /\ pc = "done" /\ width * height > 1
    /\ Marked(START) = {start} /\ Marked(END) = {end} /\ start # end

\* C14: for width = 1 and height = 1 generate() makes no visit step and
\* carves no passage, the returned 3x3 grid has only its centre non-wall,
\* and start and end are the same cell.
C14_SingleCell ==
    (width = 1 /\ height = 1) =>
        /\ visits = 0 /\ drawn = 0
        /\ pc \notin {"L80", "L81", "L82", "L83", "L85"}
        /\ Carved(grid) = {}
        /\ pc # "new" => start = end
        /\ pc = "done" =>
              /\ DOMAIN grid = (0 .. 2) \X (0 .. 2)
              /\ NonWall(grid) = {<<1, 1>>}
C14_Witness ==
    /\ pc = "done" /\ width = 1 /\ height = 1
    /\ iters = 1 /\ start = end /\ NonWall(grid) = {<<1, 1>>}

\* C15: a second, separate run with the same width and height that is fed
\* the recorded choices of the first run can always take the next recorded
\* choice, uses all of them, and ends with a grid equal to the first grid
\* position for position.
C15_ReplayIdentical ==
    run = 2 =>
        /\ (pc = "L76" /\ neighbors # <<>>) =>
              /\ drawn < Len(script)
              /\ script[drawn + 1] <= Len(neighbors)
        /\ pc = "done" => grid = firstGrid /\ drawn = Len(script)
C15_Witness ==
    /\ run = 2 /\ pc = "done" /\ grid = firstGrid
    /\ Len(script) >= 3 /\ \E i \in 1 .. Len(script) : script[i] >= 2

\* C16: a run that was cancelled by an external interrupt ends with a
\* status, not with an exception.
C16_CancellationIsStatus ==
    (ValidDims /\ pc = "interrupted") => err = "none"

\* C17: an interrupt takes effect only between whole steps: in the state an
\* interrupted run leaves, every carved passage joins two open, visited,
\* pushed cells, and the grid is a tree over the visited cells.
C17_InterruptBetweenSteps ==
    (ValidDims /\ pc = "interrupted" /\ visited # {}) =>
        /\ \A p \in Carved(grid) : \A c \in Ends(p) :
              /\ c \in DOMAIN grid
              /\ grid[c] # WALL
              /\ c \in visited
              /\ Count(pushes, c) >= 1
        /\ TreeOver(grid, visited)

\* C18: with the steps of another instance interleaved, every choice of
\* this run is the one it would have made alone from the same initial
\* generator state, that is, the draw numbered by its own earlier draws.
C18_ChoicesAsAlone ==
    pc = "L80" => choice = neighbors[Stream(drawn - 1, Len(neighbors))]

RawInGrid(p) ==
    /\ 0 <= p[1] /\ p[1] < 2 * width + 1
    /\ 0 <= p[2] /\ p[2] < 2 * height + 1

\* C19: with width >= 1 and height >= 1 generate() raises nothing: every
\* index it is about to use on the grid lies in 0 .. 2*width by
\* 0 .. 2*height, every position assigned is a grid position, the stack top
\* is read from a non-empty stack and the choice is made from a non-empty
\* list.
C19_NoInternalFailure ==
    ValidDims =>
        /\ err = "none" /\ pc # "raised"
        /\ pc # "new" => DOMAIN grid = (0 .. 2 * width) \X (0 .. 2 * height)
        /\ written \subseteq DOMAIN grid
        /\ pc \in {"L60", "L92"} => RawInGrid(<<1, 1>>)
        /\ pc = "L93" => RawInGrid(<<grid_w - 2, grid_h - 2>>)
        /\ pc = "L65" => stack # <<>>
        /\ pc = "L80" =>
              /\ neighbors # <<>>
              /\ RawInGrid(WallPos(cur[1], cur[2], choice[3], choice[4]))
        /\ pc \in {"L80", "L81"} => RawInGrid(<<choice[1], choice[2]>>)
C19_Witness ==
    /\ pc = "L81" /\ width >= 2 /\ height >= 2
    /\ <<choice[1], choice[2]>> = EndCell
    /\ RawInGrid(<<choice[1], choice[2]>>)

\* C20: a call of display() leaves every grid position, self.start,
\* self.end, the visited set and the stack as they were.
C20_DisplayIsReadOnly ==
    [][displays' # displays =>
          UNCHANGED <<grid, start, end, visited, stack>>]_vars
C20_Witness ==
    /\ displays >= 1 /\ pc = "L64" /\ snap = grid
    /\ stack # <<>> /\ Cardinality(visited) >= 3

\* Positions at which grid h differs from grid g.
Diff(g, h) == {p \in DOMAIN g : h[p] # g[p]}
Chosen == <<choice[1], choice[2]>>
Top(s) == s[Len(s)]

\* C21: a visit step carves between grid-adjacent cells only.  When the
\* choice has been made the chosen cell is a cell at distance exactly 2
\* from the current cell along one axis, and both it and the position
\* midway still hold WALL; line 80 changes the midway position to PATH and
\* nothing else, line 81 changes the chosen cell's position to PATH and
\* nothing else, and the rest of the step changes no grid position.
C21_VisitCarvesTwo ==
    /\ [](pc = "L80" =>
            /\ cur = Top(stack)
            /\ cur \in Cells(grid) /\ Chosen \in Cells(grid)
            /\ GridAdjacent(cur, Chosen)
            /\ Abs(cur[1] - Chosen[1]) + Abs(cur[2] - Chosen[2]) = 2
            /\ grid[Mid(cur, Chosen)] = WALL
            /\ grid[Chosen] = WALL)
    /\ [][/\ pc = "L80" =>
                /\ Diff(grid, grid') = {Mid(cur, Chosen)}
                /\ grid'[Mid(cur, Chosen)] = PATH
          /\ pc = "L81" =>
                /\ Diff(grid, grid') = {Chosen}
                /\ grid'[Chosen] = PATH
          /\ pc \in {"L80", "L81", "L82", "L83"} =>
                UNCHANGED <<cur, choice>>
          /\ pc \in {"L82", "L83", "L85"} => grid' = grid]_vars
C21_Witness ==
    /\ pc = "L85" /\ stepWrites = 2 /\ Len(stack) >= 3
    /\ Top(stack) = Chosen /\ cur[2] = Chosen[2] /\ Chosen[1] = cur[1] - 2
    /\ NonWall(grid) \cap {cur, Mid(cur, Chosen), Chosen}
          = {cur, Mid(cur, Chosen), Chosen}

\* Logical coordinates (0 .. width-1, 0 .. height-1) of a cell position and
\* back.
LogicalCell(p) == <<(p[1] - 1) \div 2, (p[2] - 1) \div 2>>
GridCell(c) == <<2 * c[1] + 1, 2 * c[2] + 1>>

\* The cells at logical distance 1 from cell position p, in the order up,
\* down, left, right, that lie inside width x height and are not visited.
Candidates(p) ==
    LET l == LogicalCell(p)
        around == << <<l[1], l[2] - 1>>, <<l[1], l[2] + 1>>,
                     <<l[1] - 1, l[2]>>, <<l[1] + 1, l[2]>> >>
    IN SelectSeq(around, LAMBDA c :
                    /\ 0 <= c[1] /\ c[1] < width
                    /\ 0 <= c[2] /\ c[2] < height
                    /\ GridCell(c) \notin visited)

\* C22: when the scan of an iteration is done the candidate list is, in
\* order, exactly the unvisited cells inside the maze at logical distance 1
\* (up, down, left, right) from the stack-top cell; every member of the
\* list can be chosen, and the cell chosen is a member.
C22_CandidateList ==
    /\ pc = "L76" =>
          /\ Len(neighbors) = Len(Candidates(Top(stack)))
          /\ \A i \in 1 .. Len(neighbors) :
                /\ <<neighbors[i][1], neighbors[i][2]>>
                      = GridCell(Candidates(Top(stack))[i])
                /\ ENABLED (Choose /\ choice' = neighbors[i])
    /\ pc = "L80" =>
          \E i \in 1 .. Len(Candidates(Top(stack))) :
              Chosen = GridCell(Candidates(Top(stack))[i])
C22_Witness ==
    /\ pc = "L80" /\ Len(neighbors) = 3 /\ choice = neighbors[3]
    /\ Len(Candidates(Top(stack))) = 3

\* C23: the iteration takes the backtrack branch exactly when the stack-top
\* cell has no unvisited neighbour inside the maze; the backtrack removes
\* the top element of the stack, keeps the elements below it, and leaves
\* the grid and the visited set as they were.
C23_BacktrackStep ==
    [][pc = "L76" =>
          /\ (pc' = "L64") <=> (Candidates(Top(stack)) = <<>>)
          /\ (pc' # "L64") => pc' = "L80"
          /\ (pc' = "L64") =>
                /\ stack = Append(stack', Top(stack))
                /\ grid' = grid
                /\ visited' = visited]_vars
C23_Witness ==
    /\ pc = "L64" /\ Count(pops, cur) = 1 /\ cur \in visited
    /\ stack # <<>> /\ \A i \in 1 .. Len(stack) : stack[i] # cur
    /\ Candidates(Top(stack)) # <<>>

\* C24: whenever the stack is not empty it is, bottom to top, a simple path
\* of the carved-passage graph: its bottom is the origin cell, no cell is
\* on it twice, and every two consecutive elements are grid-adjacent cells
\* whose midway wall position has been carved.
C24_StackIsCarvedPath ==
    stack # <<>> =>
        /\ stack[1] = <<1, 1>>
        /\ \A i, j \in 1 .. Len(stack) : i # j => stack[i] # stack[j]
        /\ \A i \in 1 .. Len(stack) - 1 :
              /\ stack[i] \in Cells(grid) /\ stack[i + 1] \in Cells(grid)
              /\ GridAdjacent(stack[i], stack[i + 1])
              /\ grid[Mid(stack[i], stack[i + 1])] = PATH
C24_Witness ==
    /\ pc = "L64" /\ Len(stack) >= 4 /\ Count(pops, cur) >= 1
    /\ \E i \in 1 .. Len(stack) - 2 :
          stack[i][1] # stack[i + 2][1] /\ stack[i][2] # stack[i + 2][2]

\* Generation has begun and the endpoint markers are not yet written.
BeforeMarking ==
    pc \in {"L58", "L60", "L64", "L65", "L76", "L80", "L81", "L82", "L83",
            "L85", "L92"}
OpenIffVisited == \A c \in Cells(grid) : (grid[c] = PATH) <=> (c \in visited)
AllWalls ==
    /\ DOMAIN grid = (0 .. 2 * width) \X (0 .. 2 * height)
    /\ \A p \in DOMAIN grid : grid[p] = WALL

\* C25: in every state of generation before the endpoints are marked, a
\* cell position holds PATH exactly when the cell is in visited; and the
\* grid of a maze just constructed has (2*width+1) x (2*height+1) positions,
\* all holding WALL.
C25_OpenIffVisited ==
    /\ (ValidDims /\ BeforeMarking) => OpenIffVisited
    /\ (ValidDims /\ pc = "L58") => AllWalls

\* C25, amended: the same, except at the two points inside a step where
\* lines 59-60 and lines 81-82 have done one half of their work: the origin
\* is in visited before its position is opened, and the chosen cell's
\* position is opened before the cell is in visited.
C25_OpenIffVisitedOutsideHalfSteps ==
    /\ (ValidDims /\ BeforeMarking /\ pc \notin {"L60", "L82"}) =>
          OpenIffVisited
    /\ (ValidDims /\ pc = "L60") =>
          /\ visited = {<<1, 1>>}
          /\ \A c \in Cells(grid) : grid[c] = WALL
    /\ (ValidDims /\ pc = "L82") =>
          /\ Chosen \notin visited /\ grid[Chosen] = PATH
          /\ \A c \in Cells(grid) \ {Chosen} :
                (grid[c] = PATH) <=> (c \in visited)
    /\ (ValidDims /\ pc = "L58") => AllWalls
C25_Witness ==
    /\ pc = "L85" /\ OpenIffVisited /\ Cardinality(visited) >= 4
    /\ Cardinality(Cells(grid) \ visited) >= 2

\* C26: animate does not affect the result.  A second run with the same
\* width, height and choices, and with either value of animate, is at every
\* loop test in the same (stack, visited, grid) state as the first run was
\* at that loop test, makes as many loop tests, and ends with the same grid.
C26_AnimateIrrelevant ==
    run = 2 =>
        /\ pc = "L64" =>
              /\ iters + 1 <= Len(trace)
              /\ trace[iters + 1] = <<stack, visited, grid>>
        /\ LoopExited => Len(trace) = iters + 1
        /\ pc = "done" => grid = firstGrid
C26_Witness ==
    /\ run = 2 /\ pc = "done" /\ animate # firstAnimate
    /\ grid = firstGrid /\ Len(trace) = iters + 1 /\ iters >= 7
    /\ (displays > 0) <=> animate

\* Sum of the counts of an observation counter.
RECURSIVE Total(_)
Total(f) ==
    IF DOMAIN f = {} THEN 0
    ELSE LET c == CHOOSE d \in DOMAIN f : TRUE
         IN f[c] + Total([d \in DOMAIN f \ {c} |-> f[d]])

\* C27: when the loop of generate() has ended it has made exactly
\* width*height - 1 visit steps and exactly width*height backtrack steps,
\* 2*width*height - 1 iterations in all, whatever the choices were.
C27_StepCounts ==
    LoopExited =>
        /\ visits = width * height - 1
        /\ Total(pops) = width * height
        /\ iters = 2 * width * height - 1
        /\ Total(pushes) = visits + 1
C27_Witness ==
    /\ pc = "done" /\ width * height = MaxCells
    /\ visits = MaxCells - 1 /\ iters = 2 * MaxCells - 1
    /\ \E i \in 1 .. Len(script) : script[i] >= 2

\* C28: in every state of generation every cell on the stack is in
\* visited, no cell is on the stack twice, and the stack is never longer
\* than width * height.
C28_StackWithinVisited ==
    /\ \A i \in 1 .. Len(stack) : stack[i] \in visited
    /\ \A i, j \in 1 .. Len(stack) : i # j => stack[i] # stack[j]
    /\ Len(stack) <= width * height

\* The positions of the outer border of the grid.
Border(g) ==
    {p \in DOMAIN g : \/ p[1] = 0 \/ p[1] = 2 * width
                      \/ p[2] = 0 \/ p[2] = 2 * height}

\* C29: the outer border is never carved: every position in column 0,
\* column 2*width, row 0 or row 2*height holds WALL in every state, and
\* none of them is ever assigned.
C29_BorderStaysWall ==
    /\ \A p \in Border(grid) : grid[p] = WALL
    /\ written \cap Border(grid) = {}
C29_Witness ==
    /\ pc = "done" /\ width >= 2 /\ height >= 2
    /\ Cardinality(Border(grid)) = 4 * (width + height)
    /\ \A p \in Border(grid) : grid[p] = WALL
    /\ Cardinality(Carved(grid) \cap {p \in DOMAIN grid :
            p[1] \in {1, 2 * width - 1} \/ p[2] \in {1, 2 * height - 1}})
          >= width + height

\* C30: when a second call of generate() on the same Maze has returned,
\* the carved passages are again a spanning tree of the cells: exactly
\* width * height - 1 of them, joining all cells, hence without a cycle.
C30_RegenerateKeepsTree ==
    (run = 3 /\ pc = "done") =>
        /\ Cardinality(Carved(grid)) = width * height - 1
        /\ TreeOver(grid, Cells(grid))

====
